---- MODULE Spec2Model ----
(***************************************************************************)
(* Lessons Learned generator: the section parser (parse_sections) of       *)
(* translationapp.py, testapp.py and app.py, and the field extraction of   *)
(* the document renderers that read its result.                            *)
(*                                                                         *)
(* Text is a sequence of tokens.  The characters the code looks at are     *)
(* tokens of their own: the line feed, the space, the colon, the two       *)
(* apostrophes (U+0027, U+2019) and the two hyphens (U+002D, U+2011).      *)
(* Every other token is a maximal run of other characters (a word, written *)
(* here without its accents, which no code path inspects).                 *)
(***************************************************************************)
EXTENDS Integers, Sequences, FiniteSets, TLC

\* ---------------------------------------------------------------- tokens
NL    == "\n"
SP    == " "
COLON == ":"
APOS  == "'"
RSQUO == "U+2019"
HYPHEN   == "-"
NBHYPHEN == "U+2011"

\* str.isspace() on the characters that can remain inside one line
IsSpace(c) == c = SP

\* Python's None and the empty string are both falsy and are only ever
\* tested for truthiness by the code; both are the empty token sequence.
None == << >>

\* ------------------------------------------------------- string methods
RECURSIVE lstrip(_)
lstrip(s) ==
    IF s = << >> THEN << >>
    ELSE IF IsSpace(Head(s)) THEN lstrip(Tail(s)) ELSE s

RECURSIVE rstrip(_)
rstrip(s) ==
    IF s = << >> THEN << >>
    ELSE IF IsSpace(s[Len(s)]) THEN rstrip(SubSeq(s, 1, Len(s) - 1)) ELSE s

strip(s) == rstrip(lstrip(s))

\* index of the first occurrence of token c in s, 0 when there is none
IndexOf(s, c) ==
    IF \E n \in 1..Len(s) : s[n] = c
    THEN CHOOSE n \in 1..Len(s) : s[n] = c /\ \A m \in 1..(n - 1) : s[m] # c
    ELSE 0

\* str.splitlines(): a final line feed opens no further (empty) line
RECURSIVE splitlines(_)
splitlines(t) ==
    IF t = << >> THEN << >>
    ELSE LET n == IndexOf(t, NL) IN
         IF n = 0 THEN << t >>
         ELSE << SubSeq(t, 1, n - 1) >> \o splitlines(SubSeq(t, n + 1, Len(t)))

\* len(line.split()): the number of maximal runs of non-space tokens
WordCount(s) ==
    Cardinality({n \in 1..Len(s) :
                   ~IsSpace(s[n]) /\ (n = 1 \/ IsSpace(s[n - 1]))})

\* sep.join(items)
RECURSIVE join(_, _)
join(sep, items) ==
    IF items = << >> THEN << >>
    ELSE IF Len(items) = 1 THEN items[1]
    ELSE items[1] \o sep \o join(sep, Tail(items))

\* words separated by single spaces
RECURSIVE Phrase(_)
Phrase(ws) ==
    IF ws = << >> THEN << >>
    ELSE IF Len(ws) = 1 THEN << ws[1] >>
    ELSE << ws[1], SP >> \o Phrase(Tail(ws))

\* ------------------------------------------------------- canonical keys
KTitle     == Phrase(<< "Title" >>)
KSector    == Phrase(<< "Aecon", "Business", "Sector" >>)
KProject   == Phrase(<< "Project/Location" >>)
KDate      == Phrase(<< "Date", "of", "Event" >>)
KEventType == Phrase(<< "Event", "Type" >>)
KSummaryHeader == Phrase(<< "Event", "Summary", "Header" >>)
KSummary   == Phrase(<< "Event", "Summary" >>)
KFactors   == Phrase(<< "Contributing", "Factors" >>)
KLessons   == Phrase(<< "Lessons", "Learned" >>)

CanonicalKeys ==
    { KTitle, KSector, KProject, KDate, KEventType, KSummaryHeader,
      KSummary, KFactors, KLessons }

\* ------------------------------------------------------- French labels
FrTitre      == Phrase(<< "Titre" >>)
FrSecteurDA  == << "Secteur", SP, "d", APOS, "activite", SP, "d", APOS, "Aecon" >>
FrSecteurDAT == << "Secteur", SP, "d", RSQUO, "activite", SP, "d", RSQUO, "Aecon" >>
FrSecteurA   == << "Secteur", SP, "d", APOS, "activite", SP, "Aecon" >>
FrProjetEmpl == Phrase(<< "Projet/Emplacement" >>)
FrProjetLieu == Phrase(<< "Projet/Lieu" >>)
FrDate       == << "Date", SP, "de", SP, "l", APOS, "evenement" >>
FrType       == << "Type", SP, "d", APOS, "evenement" >>
FrEnTete     == << "En", HYPHEN, "tete", SP, "du", SP, "resume", SP, "de", SP,
                   "l", APOS, "evenement" >>
FrEnTeteT    == << "En", NBHYPHEN, "tete", SP, "du", SP, "resume", SP, "de", SP,
                   "l", RSQUO, "evenement" >>
FrResume     == << "Resume", SP, "de", SP, "l", APOS, "evenement" >>
FrFacteurs   == Phrase(<< "Facteurs", "contributifs" >>)
FrLeconsAppr == Phrase(<< "Lecons", "apprises" >>)
FrLeconsTir  == Phrase(<< "Lecons", "tirees" >>)

\* the alias table of translationapp.py
label_map ==
    (KTitle :> KTitle) @@ (KSector :> KSector) @@ (KProject :> KProject) @@
    (KDate :> KDate) @@ (KEventType :> KEventType) @@
    (KSummaryHeader :> KSummaryHeader) @@ (KSummary :> KSummary) @@
    (KFactors :> KFactors) @@ (KLessons :> KLessons) @@
    (FrTitre :> KTitle) @@
    (FrSecteurDA :> KSector) @@ (FrSecteurDAT :> KSector) @@
    (FrSecteurA :> KSector) @@
    (FrProjetEmpl :> KProject) @@ (FrProjetLieu :> KProject) @@
    (FrDate :> KDate) @@ (FrType :> KEventType) @@
    (FrEnTete :> KSummaryHeader) @@ (FrEnTeteT :> KSummaryHeader) @@
    (FrResume :> KSummary) @@
    (FrFacteurs :> KFactors) @@
    (FrLeconsAppr :> KLessons) @@ (FrLeconsTir :> KLessons)

\* label_map.get(raw_label)
label_map_get(raw_label) ==
    IF raw_label \in DOMAIN label_map THEN label_map[raw_label] ELSE None

\* pat = ^([^:]+):\s*(.*)$ matched against one line
pat_match(line) ==
    LET c == IndexOf(line, COLON) IN
    IF c >= 2
    THEN [ok |-> TRUE,
          g1 |-> SubSeq(line, 1, c - 1),
          g2 |-> lstrip(SubSeq(line, c + 1, Len(line)))]
    ELSE [ok |-> FALSE, g1 |-> << >>, g2 |-> << >>]

\* ------------------------------------------------------------ the dict
\* A Python dict: the mapping, and the insertion order of its keys.
EmptyDict == [k \in {} |-> << >>]

\* d[key] = value; a key that is already present keeps its position
dict_set(d, order, key, value) ==
    [sections |-> [k \in (DOMAIN d) \cup {key} |->
                      IF k = key THEN value ELSE d[k]],
     order    |-> IF key \in DOMAIN d THEN order ELSE Append(order, key)]

\* dict.get(key, default)
dict_get(d, key, default) == IF key \in DOMAIN d THEN d[key] ELSE default

\* the local state of one parse_sections call
ParseStart ==
    [sections |-> EmptyDict, order |-> << >>, current |-> None,
     raised |-> "none"]

\* variant of append_line: sections[current].insert(0, line)
append_line_front(st, line) ==
    IF st.current \in DOMAIN st.sections
    THEN [st EXCEPT !.sections[st.current] = << line >> \o @]
    ELSE [st EXCEPT !.raised = "KeyError"]

\* sections[current].append(line)
append_line(st, line) ==
    IF st.current \in DOMAIN st.sections
    THEN [st EXCEPT !.sections[st.current] = Append(@, line)]
    ELSE [st EXCEPT !.raised = "KeyError"]

\* variant of open_section: the text after the colon is not stored
open_section_norest(st, key, rest) ==
    LET d == dict_set(st.sections, st.order, key, << >>)
    IN [st EXCEPT !.sections = d.sections, !.order = d.order,
                  !.current = key]

\* variant of open_section: sections.setdefault(key, []) keeps an old list
open_section_keep(st, key, rest) ==
    LET d == dict_set(st.sections, st.order, key,
                      dict_get(st.sections, key, << >>)
                      \o (IF rest # << >> THEN << rest >> ELSE << >>))
    IN [st EXCEPT !.sections = d.sections, !.order = d.order,
                  !.current = key]

\* variant of open_section: the key is created only with its first content
open_section_lazy(st, key, rest) ==
    IF rest = << >> /\ key \notin DOMAIN st.sections
    THEN [st EXCEPT !.current = key]
    ELSE LET d == dict_set(st.sections, st.order, key,
                           IF rest # << >> THEN << rest >> ELSE << >>)
         IN [st EXCEPT !.sections = d.sections, !.order = d.order,
                       !.current = key]

\* translationapp.py: sections[key] = []; if rest: append(rest); current = key
open_section(st, key, rest) ==
    LET d == dict_set(st.sections, st.order, key,
                      IF rest # << >> THEN << rest >> ELSE << >>)
    IN [st EXCEPT !.sections = d.sections, !.order = d.order,
                  !.current = key]

\* variant of non_header_line: text before the first heading is kept in
\* an "Unlabeled" section
non_header_line_unlabeled(st, line) ==
    IF st.current # None THEN append_line(st, line)
    ELSE LET d == dict_set(st.sections, st.order, << "Unlabeled" >>,
                           dict_get(st.sections, << "Unlabeled" >>, << >>)
                           \o << line >>)
         IN [st EXCEPT !.sections = d.sections, !.order = d.order]

\* variant of non_header_line: a line "label: rest" with an unrecognized
\* label is discarded
non_header_line_discard(st, line) ==
    IF pat_match(line).ok THEN st
    ELSE IF st.current # None THEN append_line(st, line) ELSE st

\* translationapp.py: a line that is not a recognized heading
non_header_line(st, line) ==
    IF st.current # None THEN append_line(st, line) ELSE st

\* variant of parse_line_translationapp: blank lines are not skipped
parse_line_translationapp_keepblank(st, raw) ==
    LET line      == strip(raw)
        m         == pat_match(line)
        raw_label == strip(m.g1)
        rest      == strip(m.g2)
        key       == label_map_get(raw_label)
    IN IF m.ok /\ key # None
       THEN open_section(st, key, rest)
       ELSE non_header_line(st, line)

\* translationapp.py: the body of the loop over out.splitlines()
parse_line_translationapp(st, raw) ==
    LET line == strip(raw) IN
    IF line = << >> THEN st
    ELSE LET m         == pat_match(line)
             raw_label == strip(m.g1)
             rest      == strip(m.g2)
             key       == label_map_get(raw_label)
         IN IF m.ok /\ key # None
            THEN open_section(st, key, rest)
            ELSE non_header_line(st, line)

\* the word limit of the "likely a section header" test
HeaderWordLimit == 6

\* testapp.py, app.py: line.endswith(':') and len(line.split()) < 6
likely_header(line) ==
    /\ line # << >>
    /\ line[Len(line)] = COLON
    /\ WordCount(line) < HeaderWordLimit

\* testapp.py, app.py: current = ...; sections[current] = []
open_heuristic_section(st, key) ==
    LET d == dict_set(st.sections, st.order, key, << >>)
    IN [st EXCEPT !.sections = d.sections, !.order = d.order,
                  !.current = key]

\* testapp.py: the body of the loop over content.splitlines()
parse_line_testapp(st, raw) ==
    LET line == strip(raw) IN
    IF line = << >> THEN st
    ELSE IF likely_header(line)
         THEN open_heuristic_section(st, strip(SubSeq(line, 1, Len(line) - 1)))
         ELSE IF st.current # None THEN append_line(st, line) ELSE st

\* app.py: the body of the loop of the nested parse_sections
parse_line_app(st, raw) ==
    LET line == strip(raw) IN
    IF line = << >> THEN st
    ELSE IF likely_header(line)
         THEN open_heuristic_section(st, SubSeq(line, 1, Len(line) - 1))
         ELSE IF st.current # None THEN append_line(st, line) ELSE st

\* the three programs of the repository
Apps == { "translationapp", "testapp", "app" }

\* one iteration of the loop of the parse_sections of program a
parse_line(a, st, raw) ==
    IF a = "translationapp" THEN parse_line_translationapp(st, raw)
    ELSE IF a = "testapp" THEN parse_line_testapp(st, raw)
    ELSE parse_line_app(st, raw)

\* the loop of parse_sections over the lines ls, from parse state st
RECURSIVE parse_loop(_, _, _)
parse_loop(a, st, ls) ==
    IF ls = << >> \/ st.raised # "none" THEN st
    ELSE parse_loop(a, parse_line(a, st, Head(ls)), Tail(ls))

\* parse_sections(text) of program a, as a function of its argument
parse_sections(a, text) == parse_loop(a, ParseStart, splitlines(text))

\* ------------------------------------------------------- the renderers
NoContext == [k \in {} |-> << >>]

DefaultTitle == Phrase(<< "Lessons", "Learned", "Handout" >>)

\* translationapp.py render_with_docxtpl: the context read from secs
render_with_docxtpl_translationapp(secs) ==
    IF \/ dict_get(secs, KTitle, << << >> >>) = << >>
       \/ dict_get(secs, KSummaryHeader, << << >> >>) = << >>
    THEN [raised |-> "IndexError", context |-> NoContext]
    ELSE [raised |-> "none",
          context |->
            [TITLE          |-> dict_get(secs, KTitle, << << >> >>)[1],
             SECTOR         |-> join(<< SP >>, dict_get(secs, KSector, << >>)),
             PROJECT        |-> join(<< SP >>, dict_get(secs, KProject, << >>)),
             DATE           |-> join(<< SP >>, dict_get(secs, KDate, << >>)),
             EVENT_TYPE     |-> join(<< SP >>, dict_get(secs, KEventType, << >>)),
             SUMMARY_HEADER |-> dict_get(secs, KSummaryHeader, << << >> >>)[1],
             SUMMARY        |-> join(<< SP, NL >>, dict_get(secs, KSummary, << >>)),
             FACTORS        |-> join(<< NL >>, dict_get(secs, KFactors, << >>)),
             LESSONS        |-> join(<< NL >>, dict_get(secs, KLessons, << >>))]]

\* testapp.py render_with_docxtpl: the context read from sections
render_with_docxtpl_testapp(secs) ==
    IF dict_get(secs, KTitle, << << >> >>) = << >>
    THEN [raised |-> "IndexError", context |-> NoContext]
    ELSE [raised |-> "none",
          context |->
            [TITLE      |-> dict_get(secs, KTitle, << << >> >>)[1],
             SECTOR     |-> join(<< SP >>, dict_get(secs, KSector, << >>)),
             PROJECT    |-> join(<< SP >>, dict_get(secs, KProject, << >>)),
             DATE       |-> join(<< SP >>, dict_get(secs, KDate, << >>)),
             EVENT_TYPE |-> join(<< SP >>, dict_get(secs, KEventType, << >>)),
             SUMMARY    |-> join(<< SP >>, dict_get(secs, KSummary, << >>)),
             FACTORS    |-> dict_get(secs, KFactors, << >>),
             LESSONS    |-> dict_get(secs, KLessons, << >>)]]

\* testapp.py create_lessons_learned_doc: it parses content itself
create_lessons_learned_doc_testapp(content) ==
    LET secs == parse_sections("testapp", content).sections IN
    IF dict_get(secs, KTitle, << DefaultTitle >>) = << >>
    THEN [raised |-> "IndexError", context |-> NoContext]
    ELSE [raised |-> "none",
          context |->
            [TITLE      |-> dict_get(secs, KTitle, << DefaultTitle >>)[1],
             SECTOR     |-> join(<< SP >>, dict_get(secs, KSector, << >>)),
             PROJECT    |-> join(<< SP >>, dict_get(secs, KProject, << >>)),
             DATE       |-> join(<< SP >>, dict_get(secs, KDate, << >>)),
             EVENT_TYPE |-> join(<< SP >>, dict_get(secs, KEventType, << >>)),
             SUMMARY    |-> join(<< SP >>, dict_get(secs, KSummary, << >>)),
             FACTORS    |-> dict_get(secs, KFactors, << >>),
             LESSONS    |-> dict_get(secs, KLessons, << >>)]]

\* the word tokens whose lower case contains the keyword
KeywordTokens(keyword) ==
    IF keyword = "title" THEN { "Title" }
    ELSE IF keyword = "contributing" THEN { "Contributing" }
    ELSE IF keyword = "lessons" THEN { "Lessons" }
    ELSE { }

\* keyword.lower() in key.lower(); no keyword holds a space or a colon
keyword_in_key(keyword, key) ==
    \E n \in 1..Len(key) : key[n] \in KeywordTokens(keyword)

\* app.py get_section_by_keyword: the first key, in dict order, that
\* contains the keyword
get_section_by_keyword(secs, order, keyword, default) ==
    IF \E n \in 1..Len(order) : keyword_in_key(keyword, order[n])
    THEN secs[order[CHOOSE n \in 1..Len(order) :
                  /\ keyword_in_key(keyword, order[n])
                  /\ \A m \in 1..(n - 1) : ~keyword_in_key(keyword, order[m])]]
    ELSE IF default # << >> THEN << default >> ELSE << >>

\* app.py create_lessons_learned_doc: the fields read from sections
create_lessons_learned_doc_app(secs, order) ==
    IF get_section_by_keyword(secs, order, "title", DefaultTitle) = << >>
    THEN [raised |-> "IndexError", context |-> NoContext]
    ELSE [raised |-> "none",
          context |->
            [TITLE      |-> get_section_by_keyword(secs, order, "title",
                                                   DefaultTitle)[1],
             SECTOR     |-> join(<< SP >>, dict_get(secs, KSector, << >>)),
             PROJECT    |-> join(<< SP >>, dict_get(secs, KProject, << >>)),
             DATE       |-> join(<< SP >>, dict_get(secs, KDate, << >>)),
             EVENT_TYPE |-> join(<< SP >>, dict_get(secs, KEventType, << >>)),
             SUMMARY    |-> join(<< SP >>, dict_get(secs, KSummary, << >>)),
             FACTORS    |-> get_section_by_keyword(secs, order, "contributing",
                                                   << >>),
             LESSONS    |-> get_section_by_keyword(secs, order, "lessons",
                                                   << >>)]]

\* the renderer each program calls on the parsed sections
render(a, use_template, secs, order, content) ==
    IF a = "translationapp" THEN render_with_docxtpl_translationapp(secs)
    ELSE IF a = "testapp"
         THEN IF use_template THEN render_with_docxtpl_testapp(secs)
              ELSE create_lessons_learned_doc_testapp(content)
    ELSE create_lessons_learned_doc_app(secs, order)

\* ------------------------------------------------------------- inputs
\* the text of a sequence of lines, each ended by a line feed
RECURSIVE Text(_)
Text(ls) == IF ls = << >> THEN << >> ELSE Head(ls) \o << NL >> \o Text(Tail(ls))

SeqsUpTo(S, n) == UNION { [1..k -> S] : k \in 0..n }

MaxLines == 3

LTitleInline  == KTitle \o << COLON, SP, "Crane", SP, "Incident" >>
LTitleBare    == KTitle \o << COLON >>
LSectorBare   == KSector \o << COLON >>
LInfra        == << "Infrastructure" >>
LLessonsBare  == KLessons \o << COLON >>
LLeconsInline == FrLeconsAppr \o << SP, COLON, SP, SP, "Planifier", SP >>
LNoteInline   == << "Note", COLON, SP, "check" >>
LNoteBare     == << "Note", COLON >>
LBlank        == << >>
LPadded       == << SP, SP, "Plan", SP, "lifts", SP >>

Pool ==
    { LTitleInline, LTitleBare, LSectorBare, LInfra, LLessonsBare,
      LLeconsInline, LNoteInline, LNoteBare, LBlank, LPadded }

\* ------------------------------------------------------ the state machine
VARIABLES app, out, pc, lines, i, sections, order, current, raised, context,
          calls, sess, fs

vars == << app, out, pc, lines, i, sections, order, current, raised, context,
           calls, sess, fs >>

\* no concurrent calls, no user sessions, no files
NoCalls == << >>
NoSessions == << >>
EmptyFs == [p \in {} |-> << >>]

InitCall(apps, texts) ==
    /\ app \in apps
    /\ out \in texts
    /\ pc = "start"
    /\ lines = << >>
    /\ i = 1
    /\ sections = EmptyDict
    /\ order = << >>
    /\ current = None
    /\ raised = "none"
    /\ context = NoContext

InitWith(apps, texts) ==
    /\ InitCall(apps, texts)
    /\ calls = NoCalls
    /\ sess = NoSessions
    /\ fs = EmptyFs

Init == InitWith(Apps, { Text(ls) : ls \in SeqsUpTo(Pool, MaxLines) })

\* sections = {}; current = None; for line in out.splitlines():
EnterLoop ==
    /\ pc = "start"
    /\ lines' = splitlines(out)
    /\ i' = 1
    /\ sections' = ParseStart.sections
    /\ order' = ParseStart.order
    /\ current' = ParseStart.current
    /\ pc' = "loop"
    /\ UNCHANGED << app, out, raised, context, calls, sess, fs >>

\* one iteration of the loop
ParseLine ==
    /\ pc = "loop"
    /\ i <= Len(lines)
    /\ LET st == parse_line(app,
                            [sections |-> sections, order |-> order,
                             current |-> current, raised |-> raised],
                            lines[i])
       IN /\ sections' = st.sections
          /\ order' = st.order
          /\ current' = st.current
          /\ raised' = st.raised
          /\ pc' = IF st.raised = "none" THEN "loop" ELSE "raised"
    /\ i' = i + 1
    /\ UNCHANGED << app, out, lines, context, calls, sess, fs >>

\* return sections
ParseReturn ==
    /\ pc = "loop"
    /\ i > Len(lines)
    /\ pc' = "parsed"
    /\ UNCHANGED << app, out, lines, i, sections, order, current, raised,
                    context, calls, sess, fs >>

\* the renderer reads the fields of the parsed mapping
Render ==
    /\ pc = "parsed"
    /\ \E use_template \in BOOLEAN :
         LET r == render(app, use_template, sections, order, out) IN
         /\ raised' = r.raised
         /\ context' = r.context
         /\ pc' = IF r.raised = "none" THEN "rendered" ELSE "raised"
    /\ UNCHANGED << app, out, lines, i, sections, order, current, calls, sess,
                    fs >>

Next == EnterLoop \/ ParseLine \/ ParseReturn \/ Render

Spec == Init /\ [][Next]_vars

TypeOK ==
    /\ app \in Apps
    /\ pc \in { "start", "loop", "parsed", "rendered", "raised" }
    /\ i \in 1..(Len(lines) + 1)
    /\ raised \in { "none", "KeyError", "IndexError" }

\* ------------------------------------------ what the claims speak about
TA == "translationapp"

\* the text before the first colon of a line, trimmed (None: no such text)
LabelOf(raw) ==
    LET l == strip(raw)
        c == IndexOf(l, COLON)
    IN IF c >= 2 THEN strip(SubSeq(l, 1, c - 1)) ELSE None

\* the text after the first colon of a line, trimmed
RestOf(raw) ==
    LET l == strip(raw)
        c == IndexOf(l, COLON)
    IN IF c >= 1 THEN strip(SubSeq(l, c + 1, Len(l))) ELSE << >>

\* a recognized heading: its label is in the alias table
IsHeading(raw) == LabelOf(raw) \in DOMAIN label_map
HeadingKey(raw) == label_map[LabelOf(raw)]

\* the positions in ls of the headings that resolve to key k
HeadingsOf(ls, k) ==
    { h \in 1..Len(ls) : IsHeading(ls[h]) /\ HeadingKey(ls[h]) = k }

\* the last heading among the first n lines of ls (0: none)
LastHeading(ls, n) ==
    IF \E h \in 1..n : IsHeading(ls[h])
    THEN CHOOSE h \in 1..n :
           IsHeading(ls[h]) /\ \A j \in (h + 1)..n : ~IsHeading(ls[j])
    ELSE 0

\* the first heading of ls (Len(ls) + 1: none)
FirstHeading(ls) ==
    IF \E h \in 1..Len(ls) : IsHeading(ls[h])
    THEN CHOOSE h \in 1..Len(ls) :
           IsHeading(ls[h]) /\ \A j \in 1..(h - 1) : ~IsHeading(ls[j])
    ELSE Len(ls) + 1

\* the first heading after position h (Len(ls) + 1: none)
NextHeading(ls, h) ==
    IF \E j \in (h + 1)..Len(ls) : IsHeading(ls[j])
    THEN CHOOSE j \in (h + 1)..Len(ls) :
           IsHeading(ls[j]) /\ \A m \in (h + 1)..(j - 1) : ~IsHeading(ls[m])
    ELSE Len(ls) + 1

NonBlank(l) == l # << >>

\* the non-blank lines of ls, trimmed, in order
TrimmedNonBlank(ls) ==
    SelectSeq([n \in 1..Len(ls) |-> strip(ls[n])], NonBlank)

\* the non-blank lines between heading h and the next heading or the end
LinesBetween(ls, h) ==
    TrimmedNonBlank(SubSeq(ls, h + 1, NextHeading(ls, h) - 1))

\* the text after the colon of heading line raw, as a list of 0 or 1 items
InlineItem(raw) == IF RestOf(raw) # << >> THEN << RestOf(raw) >> ELSE << >>

Items(list) == { list[n] : n \in 1..Len(list) }

\* ------------------------------------------- texts with all nine headings
KeyOrders ==
    { << KTitle, KSector, KProject, KDate, KEventType, KSummaryHeader,
         KSummary, KFactors, KLessons >>,
      << KLessons, KFactors, KSummary, KSummaryHeader, KEventType, KDate,
         KProject, KSector, KTitle >> }

FrenchLabel ==
    (KTitle :> FrTitre) @@ (KSector :> FrSecteurDA) @@
    (KProject :> FrProjetLieu) @@ (KDate :> FrDate) @@
    (KEventType :> FrType) @@ (KSummaryHeader :> FrEnTete) @@
    (KSummary :> FrResume) @@ (KFactors :> FrFacteurs) @@
    (KLessons :> FrLeconsTir)

HeadingStyles == { "bare", "inline", "french" }

HeadingLine(k, style) ==
    IF style = "bare" THEN k \o << COLON >>
    ELSE IF style = "inline" THEN k \o << COLON, SP, "Value", SP >>
    ELSE << SP >> \o FrenchLabel[k] \o << SP, COLON >>

ContentBlocks == { << LInfra >>, << LPadded, LBlank, LNoteInline >> }

RECURSIVE FullLines(_, _, _)
FullLines(ks, style, blocks) ==
    IF ks = << >> THEN << >>
    ELSE << HeadingLine(Head(ks), style) >> \o blocks[Head(ks)]
         \o FullLines(Tail(ks), style, blocks)

FullTexts ==
    { Text(FullLines(ks, style, blocks)) :
        ks \in KeyOrders, style \in HeadingStyles,
        blocks \in [CanonicalKeys -> ContentBlocks] }

InitFull == InitWith({ TA }, FullTexts)

SpecFull == InitFull /\ [][Next]_vars

\* every canonical key has exactly one heading, followed by content
EachLabelOnceWithContent(ls) ==
    \A k \in CanonicalKeys :
      /\ Cardinality(HeadingsOf(ls, k)) = 1
      /\ \A h \in HeadingsOf(ls, k) :
           InlineItem(ls[h]) \o LinesBetween(ls, h) # << >>

\* C1 (as stated): when each canonical label appears exactly once as a
\* heading followed by content, every section returned by parse_sections
\* is exactly the trimmed non-blank lines between its heading and the next
\* recognized heading, nothing added.
C1_SectionIsLinesBetween ==
    (app = TA /\ pc = "parsed" /\ EachLabelOnceWithContent(lines)) =>
      \A k \in CanonicalKeys : \A h \in HeadingsOf(lines, k) :
        k \in DOMAIN sections /\ sections[k] = LinesBetween(lines, h)

\* C1 (amended): under the same precondition every section is the trimmed
\* text after its heading's colon, when that is not empty, followed by
\* exactly the trimmed non-blank lines up to the next recognized heading.
C1_SectionIsInlinePlusLinesBetween ==
    (app = TA /\ pc = "parsed" /\ EachLabelOnceWithContent(lines)) =>
      \A k \in CanonicalKeys : \A h \in HeadingsOf(lines, k) :
        /\ k \in DOMAIN sections
        /\ sections[k] = InlineItem(lines[h]) \o LinesBetween(lines, h)

C1_Witness ==
    /\ app = TA /\ pc = "parsed" /\ EachLabelOnceWithContent(lines)
    /\ \E k \in CanonicalKeys : Len(sections[k]) = 3
    /\ \E j \in 1..Len(lines) : lines[j] = LBlank

\* --------------------------------------------------------------- C2
ExampleText == Text(<< LTitleInline, LSectorBare, LInfra >>)

ExampleResult ==
    (KTitle :> << << "Crane", SP, "Incident" >> >>) @@
    (KSector :> << << "Infrastructure" >> >>)

\* C2: once the loop has passed a recognized heading, the section of that
\* heading's key is the open one and holds the trimmed text after the
\* heading's colon as its first item when that text is not empty (no item
\* when it is empty), followed by the non-blank lines read since; the
\* example text yields Title = [Crane Incident], Aecon Business Sector =
\* [Infrastructure] and no other key.
C2_HeadingOpensSectionWithRest ==
    (app = TA /\ pc \in { "loop", "parsed" }) =>
      /\ LET h == LastHeading(lines, i - 1) IN
         h # 0 =>
           /\ current = HeadingKey(lines[h])
           /\ current \in DOMAIN sections
           /\ sections[current] =
                InlineItem(lines[h])
                \o TrimmedNonBlank(SubSeq(lines, h + 1, i - 1))
      /\ (pc = "parsed" /\ out = ExampleText) => sections = ExampleResult

C2_Witness ==
    app = TA /\ pc = "parsed" /\ out = ExampleText /\ sections = ExampleResult

\* --------------------------------------------------------------- C3
\* C3: when two or more headings of one text resolve to the same key, by
\* the same label or by different aliases, the mapping holds for that key
\* only what the last of them collected.
C3_LastWriteWins ==
    (app = TA /\ pc = "parsed") =>
      \A k \in CanonicalKeys :
        Cardinality(HeadingsOf(lines, k)) >= 2 =>
          LET last == CHOOSE h \in HeadingsOf(lines, k) :
                        \A j \in HeadingsOf(lines, k) : j <= h
          IN /\ k \in DOMAIN sections
             /\ sections[k] = InlineItem(lines[last]) \o LinesBetween(lines, last)

C3_Witness ==
    /\ app = TA /\ pc = "parsed"
    /\ out = Text(<< LLessonsBare, LInfra, LLeconsInline >>)
    /\ sections = (KLessons :> << << "Planifier" >> >>)

\* --------------------------------------------------------------- C4
\* C4: the keys of the mapping are exactly the canonical keys whose
\* heading matched at least once, also when nothing was collected.
C4_KeysAreMatchedKeys ==
    (app = TA /\ pc = "parsed") =>
      /\ DOMAIN sections =
           { k \in CanonicalKeys : HeadingsOf(lines, k) # { } }
      /\ \A j \in 1..Len(lines) :
           IsHeading(lines[j]) => HeadingKey(lines[j]) \in DOMAIN sections

C4_Witness ==
    /\ app = TA /\ pc = "parsed"
    /\ \E k \in DOMAIN sections : sections[k] = << >>
    /\ \E k \in DOMAIN sections : sections[k] # << >>
    /\ \E k \in CanonicalKeys : k \notin DOMAIN sections

\* --------------------------------------------------------------- C5
\* C5: the parser raises nothing, returns the empty mapping when no line
\* is a recognized heading, and returns what it returns for the text
\* without the lines that precede the first recognized heading.
C5_LeadingTextDiscarded ==
    (app = TA) =>
      /\ raised # "KeyError"
      /\ pc = "parsed" =>
           /\ (\A j \in 1..Len(lines) : ~IsHeading(lines[j]))
                => sections = EmptyDict
           /\ sections =
                parse_loop(TA, ParseStart,
                           SubSeq(lines, FirstHeading(lines), Len(lines))).sections
           /\ \A j \in 1..(FirstHeading(lines) - 1) : \A k \in DOMAIN sections :
                strip(lines[j]) \in Items(sections[k]) =>
                  \E m \in FirstHeading(lines)..Len(lines) :
                    strip(lines[j]) \in { strip(lines[m]), RestOf(lines[m]) }

C5_Witness ==
    /\ app = TA /\ pc = "parsed"
    /\ FirstHeading(lines) \in 2..Len(lines)
    /\ lines[1] # LBlank
    /\ sections # EmptyDict

\* --------------------------------------------------------------- C8
\* a line "label: rest" whose label is not in the alias table
UnrecognizedLabelLine(raw) == LabelOf(raw) # None /\ ~IsHeading(raw)

\* C8 (as stated): neither a line "label: rest" with an unrecognized label
\* nor its rest is stored in any section of the mapping.
C8_UnrecognizedLabelDropped ==
    (app = TA /\ pc = "parsed") =>
      \A j \in 1..Len(lines) : UnrecognizedLabelLine(lines[j]) =>
        \A k \in DOMAIN sections :
          /\ strip(lines[j]) \notin Items(sections[k])
          /\ RestOf(lines[j]) \notin Items(sections[k])

\* C8 (amended): a line "label: rest" with an unrecognized label opens no
\* section and adds no key; the whole trimmed line is appended to the
\* section that is open, and it is dropped only when no section is open.
C8_UnrecognizedLabelIsContent ==
    [][(app = TA /\ pc = "loop" /\ i <= Len(lines)
        /\ UnrecognizedLabelLine(lines[i])) =>
         /\ current' = current
         /\ DOMAIN sections' = DOMAIN sections
         /\ IF current = None
            THEN sections' = sections
            ELSE sections' =
                   [sections EXCEPT ![current] = Append(@, strip(lines[i]))]]_vars

C8_Witness ==
    /\ app = TA /\ pc = "parsed"
    /\ \E k \in DOMAIN sections : strip(LNoteInline) \in Items(sections[k])

\* --------------------------------------------------------------- C9
MaxExt == 2

\* non-blank lines that are not recognized headings
ExtPool == { LInfra, LPadded, LNoteInline, LNoteBare }

\* C9: parsing a text that has a recognized heading, followed by further
\* non-blank lines that are not recognized headings, gives the mapping of
\* the text alone with the section of its last heading extended at the end
\* by those lines, trimmed and in order; nothing else changes.
C9_MonotonicExtension ==
    (app = TA /\ pc = "parsed" /\ LastHeading(lines, Len(lines)) # 0) =>
      LET k == HeadingKey(lines[LastHeading(lines, Len(lines))]) IN
      \A L \in SeqsUpTo(ExtPool, MaxExt) :
        LET r == parse_sections(TA, out \o Text(L)) IN
        /\ r.raised = "none"
        /\ DOMAIN r.sections = DOMAIN sections
        /\ r.sections = [sections EXCEPT ![k] = @ \o TrimmedNonBlank(L)]

C9_Witness ==
    /\ app = TA /\ pc = "parsed"
    /\ LastHeading(lines, Len(lines)) # 0
    /\ Cardinality(DOMAIN sections) >= 2
    /\ sections[current] # << >>

\* --------------------------------------------------------------- C6
\* C6: in each of the three programs a line opens a section only when the
\* text before its first colon is a recognized label: every key of the
\* result is a recognized label, and a short line that ends with a colon
\* and is no recognized label opens nothing.
C6_OnlyAliasTableOpensSection ==
    pc = "parsed" =>
      /\ \A k \in DOMAIN sections : k \in DOMAIN label_map
      /\ \A j \in 1..Len(lines) :
           (likely_header(strip(lines[j])) /\ ~IsHeading(lines[j]))
             => LabelOf(lines[j]) \notin DOMAIN sections

\* --------------------------------------------------------------- C7
\* the French labels of the alias table written with U+0027
FrenchApostropheLabels ==
    { FrSecteurDA, FrSecteurA, FrDate, FrType, FrEnTete, FrResume }

\* the same label written with U+2019
Typographic(lab) ==
    [n \in 1..Len(lab) |-> IF lab[n] = APOS THEN RSQUO ELSE lab[n]]

FrPool ==
    { lab \o << COLON, SP, "Valeur" >> : lab \in FrenchApostropheLabels }
    \cup { Typographic(lab) \o << COLON, SP, "Valeur" >> :
             lab \in FrenchApostropheLabels }
    \cup { LInfra }

MaxFrLines == 2

InitFr == InitWith({ TA }, { Text(ls) : ls \in SeqsUpTo(FrPool, MaxFrLines) })

SpecFr == InitFr /\ [][Next]_vars

\* C7: a heading whose label is a French label of the alias table that
\* holds an apostrophe is recognized, and resolves to the key of that
\* label, whether it is written with U+0027 or with U+2019.
C7_ApostropheTolerance ==
    (app = TA /\ pc = "parsed") =>
      \A j \in 1..Len(lines) : \A lab \in FrenchApostropheLabels :
        LabelOf(lines[j]) \in { lab, Typographic(lab) } =>
          /\ label_map[lab] \in DOMAIN sections
          /\ label_map_get(LabelOf(lines[j])) = label_map[lab]

\* -------------------------------------------------------------- C10
\* C10: whatever mapping the parser returned, the field extraction of the
\* renderer completes without raising, and a field whose key is absent or
\* whose list is empty gets its default or empty value.
C10_ReadSiteNeverRaises ==
    /\ pc # "raised"
    /\ raised = "none"
    /\ pc = "rendered" =>
         (dict_get(sections, KTitle, << >>) = << >>
            => context.TITLE \in { << >>, DefaultTitle })

\* -------------------------------------------------------------- C11
\* the sections the renderer treats as one-line values
ScalarFields ==
    (KTitle :> "TITLE") @@ (KSector :> "SECTOR") @@ (KProject :> "PROJECT") @@
    (KDate :> "DATE") @@ (KEventType :> "EVENT_TYPE") @@
    (KSummaryHeader :> "SUMMARY_HEADER")

\* C11: render_with_docxtpl of translationapp.py renders every scalar
\* field as all the content lines of its section joined by one space, no
\* line dropped, and the Event Summary as all its lines joined by line
\* breaks, whatever the length of the list.
C11_FieldsJoinAllLines ==
    (app = TA /\ pc = "rendered") =>
      /\ \A k \in DOMAIN ScalarFields :
           context[ScalarFields[k]] = join(<< SP >>, dict_get(sections, k, << >>))
      /\ context.SUMMARY = join(<< SP, NL >>, dict_get(sections, KSummary, << >>))

\* -------------------------------------------------------------- C12
\* Concurrent invocations of parse_sections (translationapp.py).  Each call
\* has its own frame: out, the loop position and the locals label_map,
\* sections and current that the function body creates.
MaxPairLines == 2

PairPool == { LTitleInline, LSectorBare, LInfra, LNoteInline }

CallIds == { 1, 2 }

NewCall(text) ==
    [out |-> text, pc |-> "start", lines |-> << >>, i |-> 1,
     label_map |-> EmptyDict, sections |-> EmptyDict, order |-> << >>,
     current |-> None, raised |-> "none", result |-> EmptyDict]

\* variant of frame: sections and current are module-level names that all
\* calls share
frame_shared(c) == 1

\* the frame that holds the locals sections and current of call c
frame(c) == c

InitPair ==
    /\ InitCall({ TA }, { << >> })
    /\ sess = NoSessions
    /\ fs = EmptyFs
    /\ \E t1, t2 \in { Text(ls) : ls \in SeqsUpTo(PairPool, MaxPairLines) } :
         /\ t1 # t2
         /\ calls = (1 :> NewCall(t1)) @@ (2 :> NewCall(t2))

\* label_map = {...}; sections = {}; current = None; out.splitlines()
CallEnter(c) ==
    /\ calls[c].pc = "start"
    /\ calls' = [calls EXCEPT
         ![c].label_map = label_map,
         ![c].lines = splitlines(calls[c].out),
         ![c].i = 1,
         ![c].pc = "loop",
         ![frame(c)].sections = ParseStart.sections,
         ![frame(c)].order = ParseStart.order,
         ![frame(c)].current = ParseStart.current]
    /\ UNCHANGED << app, out, pc, lines, i, sections, order, current, raised,
                    context, sess, fs >>

\* one iteration of the loop of call c
CallLine(c) ==
    /\ calls[c].pc = "loop"
    /\ calls[c].i <= Len(calls[c].lines)
    /\ LET f  == frame(c)
           st == parse_line(TA,
                            [sections |-> calls[f].sections,
                             order |-> calls[f].order,
                             current |-> calls[f].current,
                             raised |-> calls[c].raised],
                            calls[c].lines[calls[c].i])
           moved == [calls EXCEPT ![c].i = @ + 1,
                                  ![c].raised = st.raised,
                                  ![c].pc = IF st.raised = "none"
                                            THEN "loop" ELSE "raised"]
       IN calls' = [moved EXCEPT ![f].sections = st.sections,
                                 ![f].order = st.order,
                                 ![f].current = st.current]
    /\ UNCHANGED << app, out, pc, lines, i, sections, order, current, raised,
                    context, sess, fs >>

\* return sections
CallReturn(c) ==
    /\ calls[c].pc = "loop"
    /\ calls[c].i > Len(calls[c].lines)
    /\ calls' = [calls EXCEPT ![c].pc = "parsed",
                              ![c].result = calls[frame(c)].sections]
    /\ UNCHANGED << app, out, pc, lines, i, sections, order, current, raised,
                    context, sess, fs >>

NextPair ==
    \E c \in DOMAIN calls : CallEnter(c) \/ CallLine(c) \/ CallReturn(c)

SpecPair == InitPair /\ [][NextPair]_vars

\* C12: however the steps of two invocations on distinct inputs are
\* interleaved, each returns the mapping it returns when run alone, raises
\* nothing, and its alias table is the one the function body writes.
C12_CallsDoNotInterfere ==
    \A c \in DOMAIN calls :
      /\ calls[c].raised = "none"
      /\ calls[c].pc \in { "loop", "parsed" } => calls[c].label_map = label_map
      /\ calls[c].pc = "parsed" =>
           calls[c].result = parse_sections(TA, calls[c].out).sections

\* both calls have returned, with different non-empty mappings
C12_Witness ==
    /\ DOMAIN calls = CallIds
    /\ \A c \in CallIds : calls[c].pc = "parsed" /\ calls[c].result # EmptyDict
    /\ calls[1].result # calls[2].result

\* ------------------------------------------------- decks and pictures
\* What the code reads of a picture blob: its extension, whether PIL
\* verifies it, its size, its SHA-256.
Blob(ext, ok, w, h, hash) ==
    [ext |-> ext, ok |-> ok, w |-> w, h |-> h, hash |-> hash]

MaxGood == 11

\* distinct, well-formed pictures
GoodBlobs == [n \in 1..MaxGood |-> Blob("png", TRUE, 4, 3, n)]

BannerBlob  == Blob("png", TRUE, 7, 2, 101)
EdgeBlob    == Blob("jpg", TRUE, 3, 1, 102)
ZeroBlob    == Blob("png", TRUE, 1, 0, 103)
WmfBlob     == Blob("wmf", TRUE, 4, 3, 104)
CorruptBlob == Blob("png", FALSE, 4, 3, 105)

\* hashlib.sha256(blob).hexdigest()
sha256(blob) == blob.hash

\* the pictures of a deck in slide order, then shape order
Shapes(blobs) ==
    [n \in 1..Len(blobs) |-> [slide |-> (n + 1) \div 2, blob |-> blobs[n]]]

Deck(name, blobs) == [name |-> name, shapes |-> Shapes(blobs)]

\* a file path of the working directory
Path(dir, name, slide, n) == [dir |-> dir, name |-> name, slide |-> slide, n |-> n]

\* open(path, "wb").write(content)
write_file(fsys, path, content) ==
    [p \in (DOMAIN fsys) \cup { path } |->
       IF p = path THEN content ELSE fsys[p]]

\* variant of already_seen: no deduplication (as in testapp.py, app.py)
already_seen_never(a, h, seen) == FALSE

\* translationapp.py: if h in seen_hashes: continue
already_seen(a, h, seen) == a = TA /\ h \in seen

\* the loop of extract_text_and_images_from_pptx over the picture shapes
RECURSIVE extract_loop(_, _, _, _, _)
extract_loop(a, shapes, images, seen, fsys) ==
    IF shapes = << >> THEN [images |-> images, fs |-> fsys]
    ELSE LET shp == Head(shapes)
             h   == sha256(shp.blob)
             fn  == Path("images", shp.blob.ext, shp.slide, Len(images))
         IN IF already_seen(a, h, seen)
            THEN extract_loop(a, Tail(shapes), images, seen, fsys)
            ELSE extract_loop(a, Tail(shapes), Append(images, fn),
                              seen \cup { h },
                              write_file(fsys, fn, shp.blob))

\* extract_text_and_images_from_pptx(path): the deck is read from the file
extract_text_and_images_from_pptx(a, fsys, path) ==
    extract_loop(a, fsys[path].shapes, << >>, { }, fsys)

\* the extensions of valid_exts, written as shp.image.ext gives them
valid_exts == { "png", "jpg", "jpeg", "bmp", "gif" }

MAX_IMG == 10

\* PILImage.open(img) ... im.verify() succeeds
pil_verifies(fsys, img) == img \in DOMAIN fsys /\ fsys[img].ok

\* variant of banner_like: the zero height is not tested
banner_like_nozero(w, h) == h # 0 /\ w > 3 * h

\* translationapp.py: h == 0 or w / h > 3
banner_like(w, h) == h = 0 \/ w > 3 * h

\* translationapp.py render_with_docxtpl: the pictures put into IMAGE1..10
inserted_images_translationapp(fsys, images) ==
    LET Verified(img) == img.name \in valid_exts /\ pil_verifies(fsys, img)
        NotBanner(img) == ~banner_like(fsys[img].w, fsys[img].h)
        filtered == SelectSeq(SelectSeq(images, Verified), NotBanner)
        shown    == IF Len(filtered) <= MAX_IMG THEN Len(filtered) ELSE MAX_IMG
    IN [n \in 1..shown |-> fsys[filtered[n]]]

\* testapp.py, app.py: add_picture of every path, failures leave a text
inserted_images_table(fsys, images) ==
    LET Loads(img) == img.name \in valid_exts /\ pil_verifies(fsys, img)
        loaded == SelectSeq(images, Loads)
    IN [n \in 1..Len(loaded) |-> fsys[loaded[n]]]

inserted_images(a, fsys, images) ==
    IF a = TA THEN inserted_images_translationapp(fsys, images)
    ELSE inserted_images_table(fsys, images)

\* ------------------------------------------------------ the generate flow
English == "English"
French  == "French (Canadian)"
SpanishOption == "Spanish - waiting on template"

\* st.selectbox: the language options each program offers
LangOptions(a) ==
    IF a = TA THEN { English, French, SpanishOption }
    ELSE IF a = "testapp" THEN { English, French }
    ELSE { English }

\* st.radio("Translate via:"), shown only under the programs' conditions
TranslatorOptions(a, lang) ==
    IF a = TA /\ lang \in { French, "Spanish" } THEN { "OpenAI", "DeepL" }
    ELSE IF a = "testapp" /\ lang = French THEN { "OpenAI", "DeepL" }
    ELSE { "None" }

\* the translation function the flow calls on generated ("none": no call)
translation_call(a, lang, translator) ==
    IF a = TA
    THEN IF lang = French
         THEN IF translator = "OpenAI" THEN "translate_to_french_openai"
              ELSE "translate_to_deepl"
         ELSE IF lang = "Spanish"
         THEN IF translator = "OpenAI" THEN "translate_to_spanish_openai"
              ELSE "translate_to_deepl"
         ELSE "none"
    ELSE IF a = "testapp" /\ lang = French
    THEN IF translator = "OpenAI" THEN "translate_to_french_openai"
         ELSE "translate_to_french_deepl"
    ELSE "none"

\* out_fp of each program
out_path(a, lang) ==
    IF a = TA
    THEN Path("out", IF lang = English THEN "lessons_learned_en.docx"
                     ELSE IF lang = French THEN "lessons_learned_fr.docx"
                     ELSE "lessons_learned_sp.docx", 0, 0)
    ELSE IF a = "testapp"
    THEN Path("out", IF lang = French THEN "lessons_learned_fr.docx"
                     ELSE "lessons_learned_en.docx", 0, 0)
    ELSE Path("out", "generated_lessons_learned.docx", 0, 0)

\* variant of flow_next: the text is parsed before it is translated
flow_next_parse_first(a, stage) ==
    IF stage = "save" THEN "extract"
    ELSE IF stage = "extract" THEN "summarize"
    ELSE IF stage = "summarize" THEN "parse"
    ELSE IF stage = "parse" THEN (IF a = "app" THEN "render" ELSE "translate")
    ELSE IF stage = "translate" THEN "render"
    ELSE IF stage = "render" THEN "download"
    ELSE "end"

\* the statement that follows each stage in the script of program a
flow_next(a, stage) ==
    IF stage = "save" THEN "extract"
    ELSE IF stage = "extract" THEN "summarize"
    ELSE IF stage = "summarize" THEN (IF a = "app" THEN "parse" ELSE "translate")
    ELSE IF stage = "translate" THEN "parse"
    ELSE IF stage = "parse" THEN "render"
    ELSE IF stage = "render" THEN "download"
    ELSE "end"

\* what the language model can answer
GenTexts ==
    { Text(<< LTitleInline, LSectorBare, LInfra >>),
      Text(<< LTitleBare, LSectorBare >>) }

LTitreInline == FrTitre \o << COLON, SP, "Incident" >>

\* what a translation service can answer
TransTexts == { Text(<< LTitreInline, LLeconsInline >>) }

NoText == << "<unset>" >>
NoDoc  == [context |-> NoContext, images |-> << >>]
NoDeck == [name |-> "", shapes |-> << >>]

\* a user session whose button has been pressed
NewSession(deck, lang, translator, use_template) ==
    [uploaded |-> deck, lang |-> lang, translator |-> translator,
     use_template |-> use_template, pc |-> "save",
     in_fp |-> Path("input", deck.name, 0, 0), read_deck |-> NoDeck,
     images |-> << >>, summary |-> NoText, called |-> "none",
     translated |-> NoText, generated |-> NoText, parse_arg |-> NoText,
     secs |-> EmptyDict, order |-> << >>, raised |-> "none",
     rendered |-> NoDoc, offered |-> NoDoc, log |-> << >>]

SessionChoices(a, decks) ==
    { NewSession(d, l, t, u) :
        d \in decks, l \in LangOptions(a),
        t \in { "OpenAI", "DeepL", "None" }, u \in BOOLEAN }

\* the sessions the widgets of program a allow
ValidSession(a, r) ==
    /\ r.translator \in TranslatorOptions(a, r.lang)
    /\ (a # "testapp" => r.use_template)

InitFlowWith(apps, ids, decks) ==
    /\ InitCall(apps, { << >> })
    /\ calls = NoCalls
    /\ fs = EmptyFs
    /\ sess \in [ids -> SessionChoices(app, decks)]
    /\ \A s \in ids : ValidSession(app, sess[s])

Others == << out, pc, lines, i, sections, order, current, raised, context,
             calls >>

\* 0/1) save the upload under input/<name>
SaveUpload(s) ==
    /\ sess[s].pc = "save"
    /\ fs' = write_file(fs, sess[s].in_fp, sess[s].uploaded)
    /\ sess' = [sess EXCEPT ![s].pc = flow_next(app, "save"),
                            ![s].log = Append(@, "save")]
    /\ UNCHANGED << app, Others >>

\* 1/2) extract text and images from the saved file
Extract(s) ==
    /\ sess[s].pc = "extract"
    /\ LET r == extract_text_and_images_from_pptx(app, fs, sess[s].in_fp) IN
       /\ fs' = r.fs
       /\ sess' = [sess EXCEPT ![s].images = r.images,
                               ![s].read_deck = fs[sess[s].in_fp],
                               ![s].pc = flow_next(app, "extract"),
                               ![s].log = Append(@, "extract")]
    /\ UNCHANGED << app, Others >>

\* 2/3) summarize: the answer of the language model
Summarize(s) ==
    /\ sess[s].pc = "summarize"
    /\ \E text \in GenTexts :
         sess' = [sess EXCEPT ![s].summary = text,
                              ![s].generated = text,
                              ![s].pc = flow_next(app, "summarize"),
                              ![s].log = Append(@, "summarize")]
    /\ UNCHANGED << app, fs, Others >>

\* what the called translation function can return for text
translation_returns(fn, text) ==
    IF fn \in { "translate_to_deepl", "translate_to_french_deepl" }
    THEN TransTexts \cup { text }
    ELSE TransTexts

\* 3/4) translate if needed
Translate(s) ==
    /\ sess[s].pc = "translate"
    /\ LET fn == translation_call(app, sess[s].lang, sess[s].translator) IN
       IF fn = "none"
       THEN sess' = [sess EXCEPT ![s].pc = flow_next(app, "translate")]
       ELSE \E text \in translation_returns(fn, sess[s].generated) :
              sess' = [sess EXCEPT ![s].called = fn,
                                   ![s].translated = text,
                                   ![s].generated = text,
                                   ![s].pc = flow_next(app, "translate"),
                                   ![s].log = Append(@, "translate")]
    /\ UNCHANGED << app, fs, Others >>

\* 4/5) secs = parse_sections(generated)
Parse(s) ==
    /\ sess[s].pc = "parse"
    /\ LET r == parse_sections(app, sess[s].generated) IN
       sess' = [sess EXCEPT ![s].parse_arg = sess[s].generated,
                            ![s].secs = r.sections,
                            ![s].order = r.order,
                            ![s].pc = flow_next(app, "parse"),
                            ![s].log = Append(@, "parse")]
    /\ UNCHANGED << app, fs, Others >>

\* 4/5) render the document and save it under out_fp
RenderDoc(s) ==
    /\ sess[s].pc = "render"
    /\ LET r   == render(app, sess[s].use_template, sess[s].secs,
                         sess[s].order, sess[s].generated)
           doc == [context |-> r.context,
                   images |-> inserted_images(app, fs, sess[s].images)]
       IN IF r.raised # "none"
          THEN /\ sess' = [sess EXCEPT ![s].raised = r.raised,
                                       ![s].pc = "raised"]
               /\ fs' = fs
          ELSE /\ fs' = write_file(fs, out_path(app, sess[s].lang), doc)
               /\ sess' = [sess EXCEPT ![s].rendered = doc,
                                       ![s].pc = flow_next(app, "render"),
                                       ![s].log = Append(@, "render")]
    /\ UNCHANGED << app, Others >>

\* 5/6) open(out_fp, "rb") and offer it for download
Download(s) ==
    /\ sess[s].pc = "download"
    /\ sess' = [sess EXCEPT ![s].offered = fs[out_path(app, sess[s].lang)],
                            ![s].pc = flow_next(app, "download"),
                            ![s].log = Append(@, "download")]
    /\ UNCHANGED << app, fs, Others >>

NextFlow ==
    \E s \in DOMAIN sess :
      \/ SaveUpload(s) \/ Extract(s) \/ Summarize(s) \/ Translate(s)
      \/ Parse(s) \/ RenderDoc(s) \/ Download(s)

\* two users of one running program, in one working directory
SessionIds == { 1, 2 }

FlowDecks ==
    { Deck("review.pptx", << GoodBlobs[1] >>),
      Deck("review.pptx", << GoodBlobs[2], BannerBlob >>) }

InitFlow == InitFlowWith(Apps, SessionIds, FlowDecks)

SpecFlow == InitFlow /\ [][NextFlow]_vars

\* -------------------------------------------------------------- C13
IsPrefix(s, t) == Len(s) <= Len(t) /\ s = SubSeq(t, 1, Len(s))

InLog(s, stage) == \E n \in 1..Len(sess[s].log) : sess[s].log[n] = stage

\* the user of session s was given a translator to choose
TranslationSelected(s) == sess[s].translator # "None"

StageOrder(s) ==
    << "save", "extract", "summarize" >>
    \o (IF TranslationSelected(s) THEN << "translate" >> ELSE << >>)
    \o << "parse", "render", "download" >>

\* C13: in every run of the three programs the completed stages are a
\* prefix of save, extract, summarize, translate (when selected), parse,
\* render, download; parse_sections gets the text the last of the
\* summarize and translate calls returned; a download is offered only of a
\* document whose rendering has finished.
C13_StagesInOrder ==
    \A s \in DOMAIN sess :
      /\ IsPrefix(sess[s].log, StageOrder(s))
      /\ InLog(s, "parse") =>
           /\ sess[s].summary # NoText
           /\ sess[s].parse_arg =
                (IF TranslationSelected(s) THEN sess[s].translated
                 ELSE sess[s].summary)
      /\ InLog(s, "download") =>
           (InLog(s, "render") /\ sess[s].rendered # NoDoc)
      /\ sess[s].offered # NoDoc => InLog(s, "render")

C13_Witness ==
    \E s \in DOMAIN sess :
      /\ TranslationSelected(s)
      /\ sess[s].log = StageOrder(s)
      /\ sess[s].offered # NoDoc

\* -------------------------------------------------------------- C15
BlobsOf(deck) == { deck.shapes[n].blob : n \in 1..Len(deck.shapes) }

\* C15: the document a session offers for download was rendered by that
\* session from its own uploaded deck and holds only pictures of that
\* deck, however the stages of two sessions are interleaved.
C15_SessionIsolation ==
    \A s \in DOMAIN sess :
      /\ InLog(s, "extract") => sess[s].read_deck = sess[s].uploaded
      /\ InLog(s, "render") =>
           \A n \in 1..Len(sess[s].rendered.images) :
             sess[s].rendered.images[n] \in BlobsOf(sess[s].uploaded)
      /\ InLog(s, "download") => sess[s].offered = sess[s].rendered

\* -------------------------------------------------------------- C16
\* the position of a stage in the log of session s (0: not there)
LogIndex(s, stage) ==
    IF InLog(s, stage)
    THEN CHOOSE n \in 1..Len(sess[s].log) : sess[s].log[n] = stage
    ELSE 0

\* the translation functions for each language option
TranslatorsFor(lang) ==
    IF lang = French
    THEN { "translate_to_french_openai", "translate_to_deepl" }
    ELSE IF lang = SpanishOption
    THEN { "translate_to_spanish_openai", "translate_to_deepl" }
    ELSE { }

\* C16: in translationapp.py, for every language option other than
\* English a translation function for that language is called on the
\* summary before parse_sections, which gets that call's return value; for
\* English none is called and the summary is parsed unchanged.
C16_NonEnglishIsTranslated ==
    \A s \in DOMAIN sess :
      (app = TA /\ InLog(s, "parse")) =>
        IF sess[s].lang = English
        THEN /\ sess[s].called = "none"
             /\ sess[s].parse_arg = sess[s].summary
        ELSE /\ sess[s].called \in TranslatorsFor(sess[s].lang)
             /\ LogIndex(s, "translate") \in 1..(LogIndex(s, "parse") - 1)
             /\ sess[s].parse_arg = sess[s].translated

\* -------------------------------------------------------------- C14
\* pictures that test one rule each, and a repeat of the first picture
ExtraBlobs ==
    { GoodBlobs[1], BannerBlob, EdgeBlob, ZeroBlob, WmfBlob, CorruptBlob }

ImageDecks ==
    { Deck("review.pptx", e1 \o SubSeq(GoodBlobs, 1, n) \o e2) :
        e1 \in SeqsUpTo(ExtraBlobs, 1), e2 \in SeqsUpTo(ExtraBlobs, 1),
        n \in 0..MaxGood }

InitImages ==
    /\ InitFlowWith({ TA }, { 1 }, ImageDecks)
    /\ sess[1].lang = English

SpecImages == InitImages /\ [][NextFlow]_vars

\* the position of the first shape of the deck that holds the blob
FirstShape(deck, blob) ==
    CHOOSE n \in 1..Len(deck.shapes) :
      /\ deck.shapes[n].blob = blob
      /\ \A m \in 1..(n - 1) : deck.shapes[m].blob # blob

\* C14: the pictures that extraction followed by render_with_docxtpl
\* (translationapp.py) puts into the document have pairwise distinct
\* SHA-256, none has zero height or a width above 3 times its height,
\* there are at most MAX_IMG of them, and they stand in extraction order.
C14_InsertedImages ==
    \A s \in DOMAIN sess :
      (app = TA /\ InLog(s, "render")) =>
        LET imgs == sess[s].rendered.images
            deck == sess[s].uploaded
        IN /\ Len(imgs) <= MAX_IMG
           /\ \A p, q \in 1..Len(imgs) :
                p < q => /\ sha256(imgs[p]) # sha256(imgs[q])
                         /\ FirstShape(deck, imgs[p]) < FirstShape(deck, imgs[q])
           /\ \A p \in 1..Len(imgs) :
                /\ imgs[p] \in BlobsOf(deck)
                /\ imgs[p].h # 0
                /\ imgs[p].w <= 3 * imgs[p].h

C14_Witness ==
    \E s \in DOMAIN sess :
      /\ app = TA /\ InLog(s, "render")
      /\ Len(sess[s].rendered.images) = MAX_IMG
      /\ Len(sess[s].images) > MAX_IMG
      /\ Len(sess[s].uploaded.shapes) > Len(sess[s].images)

====
